---- MODULE Spec2Model ----
(***************************************************************************)
(* Model of v8_kathara-isis-generator-simple.py (SimpleISISGenerator).     *)
(*                                                                         *)
(* Python strings are sequences of one-character strings, so that the      *)
(* substring test `a in b`, str.split, str.isdigit, int(), sorted() and    *)
(* re.search(..., re.IGNORECASE) are computed as the code computes them.   *)
(* A dotted address "10.0.60.1/30" is the record                           *)
(* [octets |-> <<10,0,60,1>>, prefix |-> 30].                              *)
(***************************************************************************)
EXTENDS Integers, Sequences, FiniteSets, TLC

(* ------------------------------ bounds --------------------------------- *)
MaxIfaces == 2
MaxImageLines == 2
MaxRuns == 2

(* --------------------------- string helpers ---------------------------- *)
\* the characters used, in increasing code-point order
Ascii == <<"+", "-", "0", "1", "2", "3", "4", "5", "6", "7", "8", "9", ":",
           "A", "B", "C", "F", "L", "M", "P", "R", "Z",
           "_",
           "a", "b", "c", "d", "e", "f", "g", "h", "i", "k", "l", "m", "n",
           "o", "p", "q", "r", "s", "t", "u", "v", "w", "x", "y", "z">>

Ord == [c \in {Ascii[i] : i \in 1..Len(Ascii)} |->
          CHOOSE i \in 1..Len(Ascii) : Ascii[i] = c]

UpperToLower == [c \in {"A", "B", "C", "F", "L", "M", "P", "R", "Z"} |->
                   CASE c = "A" -> "a" [] c = "B" -> "b" [] c = "C" -> "c"
                     [] c = "F" -> "f" [] c = "L" -> "l" [] c = "M" -> "m"
                     [] c = "P" -> "p"
                     [] c = "R" -> "r" [] c = "Z" -> "z"]

LowerChar(c) == IF c \in DOMAIN UpperToLower THEN UpperToLower[c] ELSE c

Lower(s) == [i \in 1..Len(s) |-> LowerChar(s[i])]

\* Python `a in b` for two strings
IsSubstring(a, b) ==
    \E i \in 0..(Len(b) - Len(a)) : SubSeq(b, i + 1, i + Len(a)) = a

\* Python str < str : lexicographic by code point, a proper prefix first
StrLess(a, b) ==
    \E k \in 1..(Len(a) + 1) :
        /\ \A j \in 1..(k - 1) : j <= Len(b) /\ a[j] = b[j]
        /\ IF k = Len(a) + 1
              THEN Len(b) >= k
              ELSE k <= Len(b) /\ Ord[a[k]] < Ord[b[k]]

\* sorted() with the comparison inverted
RECURSIVE sorted_descending(_)
sorted_descending(S) ==
    IF S = {} THEN <<>>
    ELSE LET m == CHOOSE x \in S : \A y \in S \ {x} : StrLess(y, x)
         IN  <<m>> \o sorted_descending(S \ {m})

RECURSIVE sorted(_)
sorted(S) ==
    IF S = {} THEN <<>>
    ELSE LET m == CHOOSE x \in S : \A y \in S \ {x} : StrLess(x, y)
         IN  <<m>> \o sorted(S \ {m})

Digits == {"0", "1", "2", "3", "4", "5", "6", "7", "8", "9"}

DigitVal(c) == Ord[c] - Ord["0"]

isdigit(s) == Len(s) > 0 /\ \A i \in 1..Len(s) : s[i] \in Digits

\* int(s), base 10: optional sign, digits, single underscores between digits
IntBody(s) == IF Len(s) > 0 /\ s[1] \in {"+", "-"} THEN Tail(s) ELSE s

ParsesAsInt(s) ==
    LET b == IntBody(s) IN
    /\ Len(b) > 0
    /\ \A i \in 1..Len(b) : b[i] \in Digits \cup {"_"}
    /\ b[1] \in Digits /\ b[Len(b)] \in Digits
    /\ \A i \in 1..(Len(b) - 1) : ~(b[i] = "_" /\ b[i + 1] = "_")

RECURSIVE DigitsValue(_, _)
DigitsValue(b, acc) ==
    IF b = <<>> THEN acc
    ELSE IF Head(b) = "_" THEN DigitsValue(Tail(b), acc)
    ELSE DigitsValue(Tail(b), 10 * acc + DigitVal(Head(b)))

IntValue(s) ==
    LET v == DigitsValue(IntBody(s), 0)
    IN  IF Len(s) > 0 /\ s[1] = "-" THEN 0 - v ELSE v

\* Python a % b for b > 0 (result in 0..b-1 also for negative a)
PyMod(a, b) == IF a >= 0 THEN a % b ELSE (b - ((0 - a) % b)) % b

\* str.split(sep, 1) on the first occurrence of a one-character separator
SplitAt(s, sep) ==
    IF \E i \in 1..Len(s) : s[i] = sep
       THEN LET p == CHOOSE i \in 1..Len(s) :
                       s[i] = sep /\ \A j \in 1..(i - 1) : s[j] # sep
            IN  <<SubSeq(s, 1, p - 1), SubSeq(s, p + 1, Len(s))>>
       ELSE <<s>>

(* ----------------------------- literals -------------------------------- *)
s_image == <<"i", "m", "a", "g", "e">>
s_unknown == <<"u", "n", "k", "n", "o", "w", "n">>
s_eth == <<"e", "t", "h">>

s_frr == <<"f", "r", "r">>
s_FRR == <<"F", "R", "R">>
s_quagga == <<"q", "u", "a", "g", "g", "a">>
s_vyos == <<"v", "y", "o", "s">>
s_router == <<"r", "o", "u", "t", "e", "r">>
s_alpine == <<"a", "l", "p", "i", "n", "e">>
s_ubuntu == <<"u", "b", "u", "n", "t", "u">>
s_debian == <<"d", "e", "b", "i", "a", "n">>
s_pc == <<"p", "c">>
s_client == <<"c", "l", "i", "e", "n", "t">>
s_workstation == <<"w", "o", "r", "k", "s", "t", "a", "t", "i", "o", "n">>
s_zabbix == <<"z", "a", "b", "b", "i", "x">>
s_snmp == <<"s", "n", "m", "p">>
s_manager == <<"m", "a", "n", "a", "g", "e", "r">>
s_monitor == <<"m", "o", "n", "i", "t", "o", "r">>
s_nms == <<"n", "m", "s">>

(* ------------------------- DEFAULT_CONFIG ------------------------------ *)
\* a pattern 'a|b|c' is the sequence of its alternatives
ROUTER_PATTERNS == <<s_frr, s_FRR, s_quagga, s_vyos, s_router>>
PC_PATTERNS == <<s_alpine, s_ubuntu, s_debian, s_pc, s_client, s_workstation>>
MANAGER_PATTERNS == <<s_zabbix, s_snmp, s_manager, s_monitor, s_nms>>
MGMT_SUBNET == <<192, 168, 10>>
PTP_SUBNET == <<10, 0>>
MULTI_SUBNET == <<10>>

DEFAULT_CONFIG ==
    [ROUTER_PATTERNS |-> ROUTER_PATTERNS,
     PC_PATTERNS |-> PC_PATTERNS,
     MANAGER_PATTERNS |-> MANAGER_PATTERNS]


(* ------------------------------ state ---------------------------------- *)
VARIABLES
    lab_conf,         \* the fact lines device[property]=value of lab.conf, in file order
    lab_readable,     \* os.path.isfile(lab_conf) and the file can be read
    config,           \* self.config (the three patterns)
    unwritable,       \* devices whose .startup file cannot be written
    devices,          \* self.devices
    device_networks,  \* self.device_networks : device -> list of "idx:name"
    device_images,    \* self.device_images
    device_types,     \* self.device_types
    frr_routers,      \* the list returned by identify_frr_routers
    fs,               \* the directory: device -> content of {device}.startup
    pc,               \* position in run()
    exit_code,        \* -1 while running, else the process exit status
    loop_index,       \* index of the next element of the loop run() is in
    run_no,           \* how many times the generator has been started
    prev_exit,        \* exit status of the previous run (-1: none)
    fs_start,         \* the directory when the current run started
    write_log         \* devices safe_write_file was called for in this run

vars == <<lab_conf, lab_readable, config, unwritable, devices, device_networks,
          device_images, device_types, frr_routers, fs, pc, exit_code,
          loop_index, run_no, prev_exit, fs_start, write_log>>

inputs == <<lab_conf, lab_readable, config, unwritable>>
topology == <<devices, device_networks, device_images, device_types>>

EmptyMap == [x \in {} |-> <<>>]

\* dict assignment d[k] = v
Put(d, k, v) == (k :> v) @@ d

(* ------------------------ detect_device_type --------------------------- *)
\* re.search('a|b|c', image, re.IGNORECASE) for literal alternatives
re_search(pattern, image) ==
    \E i \in 1..Len(pattern) : IsSubstring(Lower(pattern[i]), Lower(image))

\* detect_device_type with the manager pattern tested before the router one
detect_device_type_manager_first(image) ==
    IF re_search(config.MANAGER_PATTERNS, image) THEN "manager"
    ELSE IF re_search(config.ROUTER_PATTERNS, image) THEN "router"
    ELSE IF re_search(config.PC_PATTERNS, image) THEN "pc"
    ELSE "generic"

detect_device_type(image) ==
    IF re_search(config.ROUTER_PATTERNS, image) THEN "router"
    ELSE IF re_search(config.MANAGER_PATTERNS, image) THEN "manager"
    ELSE IF re_search(config.PC_PATTERNS, image) THEN "pc"
    ELSE "generic"

(* --------------------------- parse_lab_conf ---------------------------- *)
\* one fact line: [device |-> d, property |-> p, value |-> v]
ParseLine(st, line) ==
    LET device == line.device
        property_name == line.property
        right == line.value
        st1 == [st EXCEPT !.devs = @ \cup {device}]
    IN  IF property_name = s_image
           THEN [st1 EXCEPT !.images = Put(@, device, right),
                            !.types = Put(@, device, detect_device_type(right))]
        ELSE IF isdigit(property_name)
           THEN LET old == IF device \in DOMAIN st.networks
                              THEN st.networks[device] ELSE <<>>
                IN  [st1 EXCEPT !.networks =
                        Put(@, device,
                            Append(old, property_name \o <<":">> \o right))]
        ELSE st1

RECURSIVE ParseLines(_, _)
ParseLines(st, lines) ==
    IF lines = <<>> THEN st
    ELSE ParseLines(ParseLine(st, Head(lines)), Tail(lines))

\* the defaults for devices without interfaces / without image
ParseDefaults(st) ==
    [devs |-> st.devs,
     networks |-> [d \in st.devs |->
                     IF d \in DOMAIN st.networks THEN st.networks[d] ELSE <<>>],
     images |-> [d \in st.devs |->
                   IF d \in DOMAIN st.images THEN st.images[d] ELSE s_unknown],
     types |-> [d \in st.devs |->
                  IF d \in DOMAIN st.images THEN st.types[d] ELSE "generic"]]

parse_lab_conf(lines) ==
    ParseDefaults(ParseLines([devs |-> {}, networks |-> EmptyMap,
                              images |-> EmptyMap, types |-> EmptyMap], lines))

(* ----------------------- identify_frr_routers -------------------------- *)
RECURSIVE SelectRouters(_)
SelectRouters(devs) ==
    IF devs = <<>> THEN <<>>
    ELSE IF device_types[Head(devs)] = "router"
            THEN <<Head(devs)>> \o SelectRouters(Tail(devs))
            ELSE SelectRouters(Tail(devs))

InList(x, lst) == \E i \in 1..Len(lst) : lst[i] = x

(* --------------------------- the resolver ------------------------------ *)
\* any(network_name in net for net in self.device_networks[device])
OnNetwork(device, network_name) ==
    \E i \in 1..Len(device_networks[device]) :
        IsSubstring(network_name, device_networks[device][i])

is_management_network(network_name) ==
    LET has_manager == \E i \in 1..Len(devices) :
                          /\ OnNetwork(devices[i], network_name)
                          /\ device_types[devices[i]] = "manager"
        has_router == \E i \in 1..Len(devices) :
                          /\ OnNetwork(devices[i], network_name)
                          /\ device_types[devices[i]] # "manager"
                          /\ device_types[devices[i]] = "router"
    IN  has_manager /\ has_router

\* int(hashlib.md5(name.encode()).hexdigest()[:4], 16)
md5_16 == [n \in {<<"n", "e", "t", "A">>, <<"l", "a", "n">>, <<"A">>,
                  <<"m", "g", "m", "t">>, <<"x">>, <<"B">>} |->
             CASE n = <<"n", "e", "t", "A">> -> 56059
               [] n = <<"l", "a", "n">> -> 29685
               [] n = <<"A">> -> 32709
               [] n = <<"m", "g", "m", "t">> -> 55076
               [] n = <<"x">> -> 40404
               [] n = <<"B">> -> 40286]

\* subnet_num without the "+ 1" that moves the range to 1..250
subnet_num_zero_based(network_name) ==
    IF ParsesAsInt(network_name)
       THEN PyMod(IntValue(network_name), 250)
       ELSE md5_16[network_name] % 250

subnet_num(network_name) ==
    IF ParsesAsInt(network_name)
       THEN PyMod(IntValue(network_name), 250) + 1
       ELSE (md5_16[network_name] % 250) + 1

generate_ip_for_network(network_name, device_index, total_devices) ==
    IF is_management_network(network_name)
       THEN [octets |-> MGMT_SUBNET \o <<10 + device_index>>, prefix |-> 24]
    ELSE IF total_devices = 2
       THEN [octets |-> PTP_SUBNET \o <<subnet_num(network_name), device_index>>,
             prefix |-> 30]
    ELSE [octets |-> MULTI_SUBNET \o <<subnet_num(network_name), 0,
                                       device_index + 1>>,
          prefix |-> 24]

is_external_network(network_name, routers) ==
    \E i \in 1..Len(devices) :
        /\ OnNetwork(devices[i], network_name)
        /\ ~InList(devices[i], routers)

NoRouter == <<>>

find_router_on_network(network_name, routers) ==
    IF \E i \in 1..Len(routers) : OnNetwork(routers[i], network_name)
       THEN routers[CHOOSE i \in 1..Len(routers) :
                       /\ OnNetwork(routers[i], network_name)
                       /\ \A j \in 1..(i - 1) : ~OnNetwork(routers[j], network_name)]
       ELSE NoRouter

\* the counting loop: device_count and the position of `who` among the
\* devices on the network, 0 when `who` is not on it
device_count(network_name) ==
    Cardinality({i \in 1..Len(devices) : OnNetwork(devices[i], network_name)})

device_position(network_name, who) ==
    IF \E i \in 1..Len(devices) :
          devices[i] = who /\ OnNetwork(devices[i], network_name)
       THEN Cardinality({i \in 1..Len(devices) :
                /\ OnNetwork(devices[i], network_name)
                /\ \E k \in i..Len(devices) : devices[k] = who})
       ELSE 0

NoAddress == <<>>

\* router_ip.split('/')[0], or None
get_router_ip_on_network(router, network_name, routers) ==
    LET router_position == device_position(network_name, router)
    IN  IF router_position > 0
           THEN generate_ip_for_network(network_name, router_position,
                                        device_count(network_name)).octets
           ELSE NoAddress


(* --------------------------- the renderer ------------------------------ *)
\* what a {device}.startup file holds; every content has the same fields
File(kind, image, type, addrs, nat, net_id, isis, gateway) ==
    [kind |-> kind, image |-> image, type |-> type, addrs |-> addrs,
     nat |-> nat, net_id |-> net_id, isis |-> isis, gateway |-> gateway]

NoFile == File("absent", <<>>, "", <<>>, <<>>, 0, <<>>, <<>>)
EmptyFile == File("empty", <<>>, "", <<>>, <<>>, 0, <<>>, <<>>)
StaleFile == File("stale", <<>>, "", <<>>, <<>>, 0, <<>>, <<>>)

\* if_num, network_name = network_info.split(':', 1)
if_num(network_info) == SplitAt(network_info, ":")[1]
net_name(network_info) == SplitAt(network_info, ":")[2]

\* the "ip addr add {ip_addr} dev eth{if_num}" block of one interface
interface_block(device_name, network_info) ==
    LET network_name == net_name(network_info)
    IN  [dev |-> s_eth \o if_num(network_info),
         ip |-> generate_ip_for_network(network_name,
                    device_position(network_name, device_name),
                    device_count(network_name))]

\* external_interface: eth of the first interface on an external network
external_interface(networks, routers) ==
    IF \E i \in 1..Len(networks) :
          is_external_network(net_name(networks[i]), routers)
       THEN s_eth \o if_num(networks[CHOOSE i \in 1..Len(networks) :
                /\ is_external_network(net_name(networks[i]), routers)
                /\ \A j \in 1..(i - 1) :
                      ~is_external_network(net_name(networks[j]), routers)])
       ELSE <<>>

isis_content(router_name, router_index, routers) ==
    LET networks == device_networks[router_name]
    IN  File("isis", device_images[router_name], "",
             [i \in 1..Len(networks) |-> interface_block(router_name, networks[i])],
             external_interface(networks, routers),
             router_index + 1,
             [i \in 1..Len(networks) |-> s_eth \o if_num(networks[i])],
             <<>>)

\* the list `gateways` built by the interface loop
RECURSIVE gateways(_, _)
gateways(networks, routers) ==
    IF networks = <<>> THEN <<>>
    ELSE LET network_name == net_name(Head(networks))
             router == find_router_on_network(network_name, routers)
             router_ip == IF router # NoRouter
                             THEN get_router_ip_on_network(router, network_name,
                                                           routers)
                             ELSE NoAddress
         IN  (IF router # NoRouter /\ router_ip # NoAddress
                 THEN <<router_ip>> ELSE <<>>)
             \o gateways(Tail(networks), routers)

basic_content(device_name, routers) ==
    LET networks == device_networks[device_name]
        gws == gateways(networks, routers)
    IN  File("basic", device_images[device_name], device_types[device_name],
             [i \in 1..Len(networks) |-> interface_block(device_name, networks[i])],
             <<>>, 0, <<>>,
             IF gws # <<>> THEN gws[1] ELSE <<>>)

(* ------------------------------ run() ---------------------------------- *)
RECURSIVE NonRouters(_, _)
NonRouters(devs, routers) ==
    IF devs = <<>> THEN <<>>
    ELSE IF InList(Head(devs), routers)
            THEN NonRouters(Tail(devs), routers)
            ELSE <<Head(devs)>> \o NonRouters(Tail(devs), routers)

\* sys.exit(code)
Exit(code) == pc' = "done" /\ exit_code' = code

\* safe_write_file that reports a failed write and lets run() go on
safe_write_file_no_exit(device, content, next_pc, next_index) ==
    /\ write_log' = Append(write_log, device)
    /\ IF device \in unwritable
          THEN \E failed_at \in {"open", "write", "chmod"} :
                  fs' = [fs EXCEPT ![device] =
                           CASE failed_at = "open" -> @
                             [] failed_at = "write" -> EmptyFile
                             [] failed_at = "chmod" -> content]
          ELSE fs' = [fs EXCEPT ![device] = content]
    /\ pc' = next_pc
    /\ loop_index' = next_index
    /\ UNCHANGED exit_code

\* safe_write_file: the write succeeds and run() goes on, or it fails at
\* open() (file as it was), at f.write() (file truncated) or at os.chmod()
\* (content written), and the process exits with status 1
safe_write_file(device, content, next_pc, next_index) ==
    /\ write_log' = Append(write_log, device)
    /\ IF device \in unwritable
          THEN /\ \E failed_at \in {"open", "write", "chmod"} :
                     fs' = [fs EXCEPT ![device] =
                              CASE failed_at = "open" -> @
                                [] failed_at = "write" -> EmptyFile
                                [] failed_at = "chmod" -> content]
               /\ Exit(1)
               /\ UNCHANGED loop_index
          ELSE /\ fs' = [fs EXCEPT ![device] = content]
               /\ pc' = next_pc
               /\ loop_index' = next_index
               /\ UNCHANGED exit_code

\* run(): the isfile check and parse_lab_conf
ParseLabConf ==
    /\ pc = "run"
    /\ IF ~lab_readable
          THEN /\ Exit(1)
               /\ UNCHANGED topology
          ELSE LET st == parse_lab_conf(lab_conf)
               IN  /\ devices' = sorted(st.devs)
                   /\ device_networks' = st.networks
                   /\ device_images' = st.images
                   /\ device_types' = st.types
                   /\ pc' = "identify"
                   /\ UNCHANGED exit_code
    /\ UNCHANGED <<inputs, frr_routers, fs, loop_index, run_no, prev_exit,
                   fs_start, write_log>>

\* identify_frr_routers that returns the empty list instead of exiting
IdentifyFrrRouters_no_exit ==
    /\ pc = "identify"
    /\ LET routers == SelectRouters(devices)
       IN  /\ frr_routers' = routers
           /\ pc' = IF routers # <<>> THEN "routers"
                    ELSE IF devices = <<>> THEN "finish" ELSE "basic"
           /\ loop_index' = 1
           /\ UNCHANGED exit_code
    /\ UNCHANGED <<inputs, topology, fs, run_no, prev_exit, fs_start, write_log>>

IdentifyFrrRouters ==
    /\ pc = "identify"
    /\ LET routers == SelectRouters(devices)
       IN  IF routers = <<>>
              THEN Exit(0) /\ UNCHANGED <<frr_routers, loop_index>>
              ELSE /\ frr_routers' = routers
                   /\ pc' = "routers"
                   /\ loop_index' = 1
                   /\ UNCHANGED exit_code
    /\ UNCHANGED <<inputs, topology, fs, run_no, prev_exit, fs_start, write_log>>

\* one iteration of `for router_index, router in enumerate(frr_routers)`
GenerateIsisConfig ==
    /\ pc = "routers"
    /\ LET router == frr_routers[loop_index]
           last == loop_index = Len(frr_routers)
       IN  safe_write_file(router,
                           isis_content(router, loop_index - 1, frr_routers),
                           IF last
                              THEN IF NonRouters(devices, frr_routers) = <<>>
                                      THEN "finish" ELSE "basic"
                              ELSE "routers",
                           IF last THEN 1 ELSE loop_index + 1)
    /\ UNCHANGED <<inputs, topology, frr_routers, run_no, prev_exit, fs_start>>

\* generate_basic_config without the os.path.isfile check
GenerateBasicConfig_overwrite ==
    /\ pc = "basic"
    /\ LET others == NonRouters(devices, frr_routers)
           device == others[loop_index]
           next_pc == IF loop_index = Len(others) THEN "finish" ELSE "basic"
       IN  safe_write_file(device, basic_content(device, frr_routers),
                           next_pc, loop_index + 1)
    /\ UNCHANGED <<inputs, topology, frr_routers, run_no, prev_exit, fs_start>>

\* one iteration of `for device in self.devices: if device not in frr_routers`
GenerateBasicConfig ==
    /\ pc = "basic"
    /\ LET others == NonRouters(devices, frr_routers)
           device == others[loop_index]
           next_pc == IF loop_index = Len(others) THEN "finish" ELSE "basic"
       IN  IF fs[device].kind # "absent"
              THEN /\ pc' = next_pc
                   /\ loop_index' = loop_index + 1
                   /\ UNCHANGED <<fs, exit_code, write_log>>
              ELSE safe_write_file(device, basic_content(device, frr_routers),
                                   next_pc, loop_index + 1)
    /\ UNCHANGED <<inputs, topology, frr_routers, run_no, prev_exit, fs_start>>

\* the end of run(): the summary is printed and the process ends normally
Finish ==
    /\ pc = "finish"
    /\ Exit(0)
    /\ UNCHANGED <<inputs, topology, frr_routers, fs, loop_index, run_no,
                   prev_exit, fs_start, write_log>>

\* the generator is started again on the same input, as a new process
StartAgain ==
    /\ pc = "done"
    /\ run_no < MaxRuns
    /\ run_no' = run_no + 1
    /\ prev_exit' = exit_code
    /\ exit_code' = -1
    /\ pc' = "run"
    /\ devices' = <<>>
    /\ device_networks' = EmptyMap
    /\ device_images' = EmptyMap
    /\ device_types' = EmptyMap
    /\ frr_routers' = <<>>
    /\ loop_index' = 1
    /\ fs_start' = fs
    /\ write_log' = <<>>
    /\ UNCHANGED <<inputs, fs>>

Next ==
    \/ ParseLabConf
    \/ IdentifyFrrRouters
    \/ GenerateIsisConfig
    \/ GenerateBasicConfig
    \/ Finish
    \/ StartAgain

(* --------------------------- the inputs -------------------------------- *)
d_R1 == <<"R", "1">>
d_PC1 == <<"P", "C", "1">>
d_M1 == <<"M", "1">>
DevicePool == <<d_R1, d_PC1, d_M1>>
AllDevices == {DevicePool[i] : i \in 1..Len(DevicePool)}

n_netA == <<"n", "e", "t", "A">>
n_1 == <<"1">>

SeqsUpTo(S, n) == UNION {[1..k -> S] : k \in 0..n}

DigitChar(i) == Ascii[Ord["0"] + i]

RECURSIVE Flatten(_)
Flatten(ss) == IF ss = <<>> THEN <<>> ELSE Head(ss) \o Flatten(Tail(ss))

\* a lab.conf: the image lines of every device, then its interface lines
\* eth0, eth1, ... in declaration order
Lab(imgs, ifs) ==
    Flatten([k \in 1..Len(DevicePool) |->
               [i \in 1..Len(imgs[k]) |->
                  [device |-> DevicePool[k], property |-> s_image,
                   value |-> imgs[k][i]]]])
    \o
    Flatten([k \in 1..Len(DevicePool) |->
               [i \in 1..Len(ifs[k]) |->
                  [device |-> DevicePool[k], property |-> <<DigitChar(i - 1)>>,
                   value |-> ifs[k][i]]]])

InitRun(labs, readable, configs, unwritables, files) ==
    /\ lab_conf \in labs
    /\ lab_readable \in readable
    /\ config \in configs
    /\ unwritable \in unwritables
    /\ fs \in files
    /\ fs_start = fs
    /\ devices = <<>>
    /\ device_networks = EmptyMap
    /\ device_images = EmptyMap
    /\ device_types = EmptyMap
    /\ frr_routers = <<>>
    /\ pc = "run"
    /\ exit_code = -1
    /\ loop_index = 1
    /\ run_no = 1
    /\ prev_exit = -1
    /\ write_log = <<>>

NoFiles == [d \in AllDevices |-> NoFile]

\* topologies: R1 a router, PC1 and M1 of varying role or absent, every
\* device with up to MaxIfaces interfaces on the networks "1" and "netA"
AddrLabs ==
    {Lab(<<<<s_frr>>, i2, i3>>, ifs) :
        i2 \in {<<>>, <<s_alpine>>},
        i3 \in {<<>>, <<s_zabbix>>, <<s_frr>>},
        ifs \in [1..3 -> SeqsUpTo({n_1, n_netA}, MaxIfaces)]}

Init == InitRun(AddrLabs, {TRUE}, {DEFAULT_CONFIG}, {{}}, {NoFiles})

Spec == Init /\ [][Next]_vars


(* ------------------- notions the properties are stated in -------------- *)
\* the network names of a device's interfaces, in declaration order
NetworksOf(device) ==
    [i \in 1..Len(device_networks[device]) |->
        net_name(device_networks[device][i])]

\* the device has at least one interface whose network name equals N
Attached(device, N) ==
    \E i \in 1..Len(device_networks[device]) : NetworksOf(device)[i] = N

\* the devices attached to N, in the sorted device order
RECURSIVE AttachedList(_, _)
AttachedList(devs, N) ==
    IF devs = <<>> THEN <<>>
    ELSE IF Attached(Head(devs), N)
            THEN <<Head(devs)>> \o AttachedList(Tail(devs), N)
            ELSE AttachedList(Tail(devs), N)

ManagementByMembers(N) ==
    /\ \E i \in 1..Len(devices) :
          Attached(devices[i], N) /\ device_types[devices[i]] = "manager"
    /\ \E i \in 1..Len(devices) :
          Attached(devices[i], N) /\ device_types[devices[i]] = "router"

NetworkNames == {n_1, n_netA}

Parsed == pc # "run" /\ lab_readable

\* the file of the device was generated by the current run
Generated(device) == InList(device, write_log) /\ fs[device].kind \in {"isis", "basic"}

(* ------------------------------- C1 ------------------------------------ *)
\* C1: for every network name N, is_management_network(N) is true if and
\* only if the devices that have an interface whose network name equals N
\* include a manager and a router (false when no device is attached to N).
C1_ManagementIffMembers ==
    Parsed => \A N \in NetworkNames :
                 is_management_network(N) <=> ManagementByMembers(N)

(* ------------------------------- C3 ------------------------------------ *)
\* the address the statement prescribes for position p among c devices on N
PrescribedAddress(N, p, c, s) ==
    IF ManagementByMembers(N)
       THEN [octets |-> <<192, 168, 10, 10 + p>>, prefix |-> 24]
    ELSE IF c = 2
       THEN [octets |-> <<10, 0, s, p>>, prefix |-> 30]
    ELSE [octets |-> <<10, s, 0, p + 1>>, prefix |-> 24]

\* C3: every generated address on a network N, computed for position p and
\* count c, is MGMT_SUBNET.(10+p)/24 when N is a management network, else
\* PTP_SUBNET.s.p/30 when c = 2, else MULTI_SUBNET.s.0.(p+1)/24.
C3_AddressByCase ==
    \A i \in 1..Len(devices) :
        LET d == devices[i] IN
        Generated(d) =>
           \A k \in 1..Len(device_networks[d]) :
              LET N == NetworksOf(d)[k]
              IN  fs[d].addrs[k].ip =
                     PrescribedAddress(N, device_position(N, d),
                                       device_count(N), subnet_num(N))

(* ------------------------------- C4 ------------------------------------ *)
\* R1[image]="frr", PC1[image]="alpine", R1[0]="netA", PC1[0]="netA"
ScenarioLab ==
    <<[device |-> d_R1, property |-> s_image, value |-> s_frr],
      [device |-> d_PC1, property |-> s_image, value |-> s_alpine],
      [device |-> d_R1, property |-> <<"0">>, value |-> n_netA],
      [device |-> d_PC1, property |-> <<"0">>, value |-> n_netA]>>

ScenarioDone ==
    lab_conf = ScenarioLab /\ pc = "done" /\ exit_code = 0 /\ run_no = 1

\* C4 as stated: R1 is a router and PC1 generic, R1 has position 1 and
\* 10.0.60.1/30, PC1 has position 2 and 10.0.60.2/30, and the default route
\* of PC1 targets the address of R1.
C4_ScenarioAsStated ==
    ScenarioDone =>
        /\ device_types[d_R1] = "router"
        /\ device_types[d_PC1] = "generic"
        /\ fs[d_R1].addrs = <<[dev |-> <<"e", "t", "h", "0">>,
                               ip |-> [octets |-> <<10, 0, 60, 1>>, prefix |-> 30]]>>
        /\ fs[d_PC1].addrs = <<[dev |-> <<"e", "t", "h", "0">>,
                                ip |-> [octets |-> <<10, 0, 60, 2>>, prefix |-> 30]]>>
        /\ fs[d_PC1].gateway = fs[d_R1].addrs[1].ip.octets

\* C4 (amended): R1 is a router and PC1 a pc; in sorted device order PC1 has
\* position 1 and 10.0.60.1/30, R1 has position 2 and 10.0.60.2/30, and the
\* default route of PC1 targets the address of R1, 10.0.60.2.
C4_Scenario ==
    ScenarioDone =>
        /\ device_types[d_R1] = "router"
        /\ device_types[d_PC1] = "pc"
        /\ devices = <<d_PC1, d_R1>>
        /\ fs[d_PC1].kind = "basic" /\ fs[d_R1].kind = "isis"
        /\ fs[d_PC1].addrs = <<[dev |-> <<"e", "t", "h", "0">>,
                                ip |-> [octets |-> <<10, 0, 60, 1>>, prefix |-> 30]]>>
        /\ fs[d_R1].addrs = <<[dev |-> <<"e", "t", "h", "0">>,
                               ip |-> [octets |-> <<10, 0, 60, 2>>, prefix |-> 30]]>>
        /\ fs[d_PC1].gateway = <<10, 0, 60, 2>>
        /\ fs[d_PC1].gateway = fs[d_R1].addrs[1].ip.octets

C4_Witness == ScenarioDone /\ Generated(d_R1) /\ Generated(d_PC1)

(* ------------------------------- C9 ------------------------------------ *)
RouterAttached(N) ==
    \E i \in 1..Len(frr_routers) : Attached(frr_routers[i], N)

\* C9: a generated non-router script has a default route if and only if
\* some network of the device has a router attached; its target is the
\* address that the first router (sorted order) attached to the first such
\* network (declaration order) is given on that network by its own script.
C9_DefaultRoute ==
    \A i \in 1..Len(devices) :
        LET d == devices[i]
            nets == NetworksOf(d)
        IN  (Generated(d) /\ ~InList(d, frr_routers)) =>
              /\ fs[d].gateway # <<>> <=>
                    \E k \in 1..Len(nets) : RouterAttached(nets[k])
              /\ fs[d].gateway # <<>> =>
                    LET k0 == CHOOSE k \in 1..Len(nets) :
                                 /\ RouterAttached(nets[k])
                                 /\ \A j \in 1..(k - 1) : ~RouterAttached(nets[j])
                        r0 == AttachedList(frr_routers, nets[k0])[1]
                    IN  \E j \in 1..Len(device_networks[r0]) :
                           /\ NetworksOf(r0)[j] = nets[k0]
                           /\ fs[r0].addrs[j].ip.octets = fs[d].gateway

(* ------------------------------- C10 ----------------------------------- *)
ExternalByMembers(N) ==
    \E i \in 1..Len(devices) :
        Attached(devices[i], N) /\ ~InList(devices[i], frr_routers)

\* C10: a generated router script has a NAT rule if and only if one of the
\* router's networks has an attached device that is not a router, and the
\* egress interface is the first interface, in declaration order, on such
\* a network.
C10_NatRule ==
    \A i \in 1..Len(frr_routers) :
        LET r == frr_routers[i]
            nets == NetworksOf(r)
        IN  Generated(r) =>
              /\ fs[r].nat # <<>> <=>
                    \E k \in 1..Len(nets) : ExternalByMembers(nets[k])
              /\ fs[r].nat # <<>> =>
                    LET k0 == CHOOSE k \in 1..Len(nets) :
                                 /\ ExternalByMembers(nets[k])
                                 /\ \A j \in 1..(k - 1) : ~ExternalByMembers(nets[j])
                    IN  fs[r].nat = s_eth \o if_num(device_networks[r][k0])


(* ------------------------------- C2 ------------------------------------ *)
n_lan == <<"l", "a", "n">>
n_A == <<"A">>
n_minus5 == <<"-", "5">>
n_250 == <<"2", "5", "0">>
n_1_0 == <<"1", "_", "0">>
n_plus3 == <<"+", "3">>

NamePool == {n_1, n_minus5, n_250, n_1_0, n_plus3, n_netA, n_lan, n_A}

\* the integer Python reads from each numeric name of the pool
IntegerNames == {n_1, n_minus5, n_250, n_1_0, n_plus3}
IntegerOf(N) ==
    CASE N = n_1 -> 1 [] N = n_minus5 -> 0 - 5 [] N = n_250 -> 250
      [] N = n_1_0 -> 10 [] N = n_plus3 -> 3

\* topologies: router R1 with up to MaxIfaces interfaces on names of the
\* pool, PC1 (alpine) and M1 (zabbix or frr) with at most one interface,
\* on one of R1's networks
NameLabs ==
    UNION {{Lab(<<<<s_frr>>, <<s_alpine>>, i3>>, <<l, p, m>>) :
               p \in {<<>>} \cup {<<l[i]>> : i \in 1..Len(l)},
               m \in {<<>>} \cup {<<l[i]>> : i \in 1..Len(l)},
               i3 \in {<<s_zabbix>>, <<s_frr>>}} :
           l \in SeqsUpTo(NamePool, MaxIfaces)}

InitNames == InitRun(NameLabs, {TRUE}, {DEFAULT_CONFIG}, {{}}, {NoFiles})

SpecNames == InitNames /\ [][Next]_vars

\* the subnet number inside a generated non-management address
SubnetOctet(ip) == IF ip.prefix = 30 THEN ip.octets[3] ELSE ip.octets[2]

\* C2: in every generated address on a non-management network N the subnet
\* number is in 1..250; it is (n mod 250) + 1 when N reads as the integer n
\* (negative n included) and (md5_16(N) mod 250) + 1 otherwise - a function
\* of the name alone, whatever the position and the device count are.
C2_SubnetNumber ==
    \A i \in 1..Len(devices) :
        LET d == devices[i] IN
        Generated(d) =>
           \A k \in 1..Len(device_networks[d]) :
              LET N == NetworksOf(d)[k]
                  sn == SubnetOctet(fs[d].addrs[k].ip)
              IN  ~is_management_network(N) =>
                     /\ sn \in 1..250
                     /\ N \in IntegerNames =>
                           \E q \in {0 - 1, 0, 1} : IntegerOf(N) = 250 * q + (sn - 1)
                     /\ N \notin IntegerNames =>
                           \E q \in 0..262 : md5_16[N] = 250 * q + (sn - 1)

\* a negative numeric name and a hashed name have been used for addresses
C2_Witness ==
    /\ pc = "done" /\ exit_code = 0
    /\ \E i \in 1..Len(devices) :
          LET d == devices[i] IN
          /\ Generated(d)
          /\ \E k \in 1..Len(device_networks[d]) :
                /\ NetworksOf(d)[k] = n_minus5
                /\ ~is_management_network(n_minus5)
                /\ SubnetOctet(fs[d].addrs[k].ip) = 246
          /\ \E k \in 1..Len(device_networks[d]) :
                /\ NetworksOf(d)[k] = n_lan
                /\ ~is_management_network(n_lan)
                /\ SubnetOctet(fs[d].addrs[k].ip) = 186


(* --------------------- runs, files and failures ------------------------ *)
\* topologies: every device with or without an image and with at most one
\* interface on netA; any set of existing startup files; any set of files
\* that cannot be written; lab.conf readable or not
FileLabs ==
    {Lab(<<i1, i2, i3>>, ifs) :
        i1 \in {<<>>, <<s_frr>>},
        i2 \in {<<>>, <<s_alpine>>},
        i3 \in {<<>>, <<s_zabbix>>, <<s_frr>>},
        ifs \in [1..3 -> SeqsUpTo({n_netA}, 1)]}

InitFiles ==
    InitRun(FileLabs, BOOLEAN, {DEFAULT_CONFIG}, SUBSET AllDevices,
            [AllDevices -> {NoFile, StaleFile}])

SpecFiles == InitFiles /\ [][Next]_vars

NoRouterRole == \A i \in 1..Len(devices) : device_types[devices[i]] # "router"

(* ------------------------------- C5 ------------------------------------ *)
\* C5: when a readable topology has no device of role router, the run ends
\* with exit code 0 and no startup file is created or modified; no file is
\* written before the router check has completed.
C5_NoRoutersNoOutput ==
    /\ (Parsed /\ NoRouterRole) =>
          /\ pc \in {"identify", "done"}
          /\ fs = fs_start /\ write_log = <<>>
          /\ pc = "done" => exit_code = 0
    /\ pc \in {"run", "identify"} => (fs = fs_start /\ write_log = <<>>)

\* a finished run without routers that had non-router files left to create
C5_Witness ==
    /\ Parsed /\ NoRouterRole /\ pc = "done" /\ exit_code = 0
    /\ \E i \in 1..Len(devices) : fs[devices[i]].kind = "absent"

(* ------------------------------- C6 ------------------------------------ *)
IsNonRouter(d) == d \notin DOMAIN device_types \/ device_types[d] # "router"

\* C6: after a second complete run every router file has exactly the
\* content the first run wrote; a non-router file that existed when a run
\* started is never changed by that run; a complete run leaves a generated
\* file for every router, whatever file was there before.
C6_TwoRuns ==
    /\ (run_no = 2 /\ prev_exit = 0 /\ pc = "done" /\ exit_code = 0) =>
          \A i \in 1..Len(frr_routers) :
             fs[frr_routers[i]] = fs_start[frr_routers[i]]
    /\ \A d \in AllDevices :
          (IsNonRouter(d) /\ fs_start[d].kind # "absent") => fs[d] = fs_start[d]
    /\ (pc = "done" /\ exit_code = 0) =>
          \A i \in 1..Len(frr_routers) :
             /\ fs[frr_routers[i]].kind = "isis"
             /\ InList(frr_routers[i], write_log)

\* a second complete run with a router, a kept stale non-router file and a
\* generated non-router file
C6_Witness ==
    /\ run_no = 2 /\ prev_exit = 0 /\ pc = "done" /\ exit_code = 0
    /\ frr_routers # <<>>
    /\ \E d \in AllDevices : Parsed /\ InList(d, devices) /\ IsNonRouter(d)
                             /\ fs[d] = StaleFile
    /\ \E d \in AllDevices : IsNonRouter(d) /\ fs[d].kind = "basic"

(* ------------------------------- C8 ------------------------------------ *)
\* routers in sorted order, then the other devices in sorted order
GenerationOrder == frr_routers \o NonRouters(devices, frr_routers)

Later(d, e) ==
    \E i, j \in 1..Len(GenerationOrder) :
        i < j /\ GenerationOrder[i] = e /\ GenerationOrder[j] = d

\* C8: an unreadable lab.conf ends the run with exit code 1 and no file
\* written; a failed write ends the run with exit code 1 at once: it is the
\* last write attempted, it was attempted once, no device later in the
\* generation order has its file touched, and the files written before it
\* are still there.
C8_FatalStops ==
    /\ ~lab_readable =>
          /\ fs = fs_start /\ write_log = <<>>
          /\ pc = "done" => exit_code = 1
    /\ \A i \in 1..Len(write_log) :
          write_log[i] \in unwritable =>
             /\ i = Len(write_log)
             /\ pc = "done" /\ exit_code = 1
             /\ \A j \in 1..(i - 1) : write_log[j] # write_log[i]
             /\ \A d \in AllDevices :
                   Later(d, write_log[i]) => fs[d] = fs_start[d]
             /\ \A j \in 1..(i - 1) : fs[write_log[j]].kind \in {"isis", "basic"}

\* a write failed after an earlier write succeeded, with a file still to
\* be created for a later device
C8_Witness ==
    /\ pc = "done" /\ exit_code = 1
    /\ Len(write_log) >= 2
    /\ write_log[Len(write_log)] \in unwritable
    /\ \E d \in AllDevices :
          Later(d, write_log[Len(write_log)]) /\ fs_start[d].kind = "absent"


(* ------------------------------- C7 ------------------------------------ *)
i_Alpine == <<"A", "l", "p", "i", "n", "e">>
i_snmp_router == <<"s", "n", "m", "p", "-", "r", "o", "u", "t", "e", "r">>
ImagePool == {s_frr, i_Alpine, i_snmp_router}

\* configurations: each pattern is the default or a pattern from a
\* configuration file
Configs ==
    [ROUTER_PATTERNS : {ROUTER_PATTERNS, << <<"A", "L", "P">> >>},
     MANAGER_PATTERNS : {MANAGER_PATTERNS, << <<"k", "n", "o", "w">>, s_snmp >>},
     PC_PATTERNS : {PC_PATTERNS, << <<"r">> >>}]

\* topologies: R1 and PC1 on netA, each with up to MaxImageLines image lines
RoleLabs ==
    {Lab(<<i1, i2, <<>>>>, <<<<n_netA>>, <<n_netA>>, <<>>>>) :
        i1 \in SeqsUpTo(ImagePool, MaxImageLines),
        i2 \in SeqsUpTo(ImagePool, MaxImageLines)}

InitRoles == InitRun(RoleLabs, {TRUE}, Configs, {{}}, {NoFiles})

SpecRoles == InitRoles /\ [][Next]_vars

\* the image values declared for a device, in file order
RECURSIVE ImageLines(_, _)
ImageLines(lines, d) ==
    IF lines = <<>> THEN <<>>
    ELSE (IF Head(lines).device = d /\ Head(lines).property = s_image
             THEN <<Head(lines).value>> ELSE <<>>)
         \o ImageLines(Tail(lines), d)

\* router before manager before pc, generic when no pattern matches
PriorityRole(image) ==
    LET roles == <<"router", "manager", "pc">>
        patterns == <<config.ROUTER_PATTERNS, config.MANAGER_PATTERNS,
                      config.PC_PATTERNS>>
        hits == {k \in 1..3 : re_search(patterns[k], image)}
    IN  IF hits = {} THEN "generic"
        ELSE roles[CHOOSE k \in hits : \A j \in hits : k <= j]

\* C7 as stated: after parsing, the recorded image of a device is the last
\* image declared for it, or "unknown", and its role is the priority
\* classification of that recorded image.
C7_RoleOfRecordedImage ==
    Parsed =>
       \A i \in 1..Len(devices) :
          LET d == devices[i]
              decl == ImageLines(lab_conf, d)
          IN  /\ device_images[d] =
                    IF decl # <<>> THEN decl[Len(decl)] ELSE s_unknown
              /\ device_types[d] = PriorityRole(device_images[d])

\* C7 (amended): after parsing, a device with a declared image has the last
\* declared image and its priority classification as role; a device without
\* one has image "unknown" and role generic, whatever the patterns match.
C7_RoleOfDeclaredImage ==
    Parsed =>
       \A i \in 1..Len(devices) :
          LET d == devices[i]
              decl == ImageLines(lab_conf, d)
          IN  IF decl # <<>>
                 THEN /\ device_images[d] = decl[Len(decl)]
                      /\ device_types[d] = PriorityRole(decl[Len(decl)])
                 ELSE /\ device_images[d] = s_unknown
                      /\ device_types[d] = "generic"

\* a device whose image was redeclared with another role and now matches
\* the router and the manager pattern, next to a device without image under
\* patterns that match "unknown"
C7_Witness ==
    /\ Parsed
    /\ \E i \in 1..Len(devices) :
          LET decl == ImageLines(lab_conf, devices[i]) IN
          /\ Len(decl) >= 2
          /\ PriorityRole(decl[1]) # PriorityRole(decl[Len(decl)])
          /\ re_search(config.ROUTER_PATTERNS, decl[Len(decl)])
          /\ re_search(config.MANAGER_PATTERNS, decl[Len(decl)])
          /\ device_types[devices[i]] = "router"
    /\ \E i \in 1..Len(devices) :
          /\ ImageLines(lab_conf, devices[i]) = <<>>
          /\ PriorityRole(s_unknown) = "manager"
          /\ device_types[devices[i]] = "generic"


(* ------------------------------- C11 ----------------------------------- *)
\* a lab.conf whose interface lines carry any index: ifs[k] is the list of
\* <<index, network name>> lines of DevicePool[k], in file order
LabWithIndices(imgs, ifs) ==
    Flatten([k \in 1..Len(DevicePool) |->
               [i \in 1..Len(imgs[k]) |->
                  [device |-> DevicePool[k], property |-> s_image,
                   value |-> imgs[k][i]]]])
    \o
    Flatten([k \in 1..Len(DevicePool) |->
               [i \in 1..Len(ifs[k]) |->
                  [device |-> DevicePool[k],
                   property |-> <<DigitChar(ifs[k][i][1])>>,
                   value |-> ifs[k][i][2]]]])

\* topologies: router R1 and PC1, each with up to MaxIfaces interface
\* lines on eth0 or eth1, the same index possibly declared twice
RepeatLabs ==
    {LabWithIndices(<<<<s_frr>>, <<s_alpine>>, <<>>>>, <<l1, l2, <<>>>>) :
        l1 \in SeqsUpTo({0, 1} \X {n_netA, n_lan}, MaxIfaces),
        l2 \in SeqsUpTo({0, 1} \X {n_netA, n_lan}, MaxIfaces)}

InitRepeat == InitRun(RepeatLabs, {TRUE}, {DEFAULT_CONFIG}, {{}}, {NoFiles})

SpecRepeat == InitRepeat /\ [][Next]_vars

\* the lines of lab.conf that declare interface idx of device d
InterfaceLines(d, idx) ==
    {i \in 1..Len(lab_conf) :
        lab_conf[i].device = d /\ lab_conf[i].property = idx}

LastLine(d, idx) ==
    CHOOSE i \in InterfaceLines(d, idx) : \A j \in InterfaceLines(d, idx) : j <= i

\* C11: when lab.conf declares an interface index of a device more than
\* once, the last declaration wins: the interface list of the device holds
\* exactly one entry for the index, on the network of the last such line,
\* and the device is attached to no network other than the last declared
\* network of one of its indices.
C11_LastDeclarationWins ==
    Parsed =>
       \A n \in 1..Len(devices) :
          LET d == devices[n] IN
          /\ \A idx \in {<<"0">>, <<"1">>} :
                InterfaceLines(d, idx) # {} =>
                   /\ Cardinality({k \in 1..Len(device_networks[d]) :
                          if_num(device_networks[d][k]) = idx}) = 1
                   /\ \A k \in 1..Len(device_networks[d]) :
                         if_num(device_networks[d][k]) = idx =>
                            net_name(device_networks[d][k]) =
                               lab_conf[LastLine(d, idx)].value
          /\ \A N \in {n_netA, n_lan} :
                Attached(d, N) =>
                   \E idx \in {<<"0">>, <<"1">>} :
                      /\ InterfaceLines(d, idx) # {}
                      /\ lab_conf[LastLine(d, idx)].value = N


(* ------------------------------- C12 ----------------------------------- *)
\* the position of d among the devices attached to N, in sorted order
PositionAmongAttached(d, N) ==
    LET al == AttachedList(devices, N)
    IN  CHOOSE p \in 1..Len(al) : al[p] = d

\* the address a generated script gives device d on network N
AddressesOn(d, N) ==
    {fs[d].addrs[k].ip : k \in {j \in 1..Len(device_networks[d]) :
                                   NetworksOf(d)[j] = N}}

\* C12: the devices attached to a network N have the positions 1..count in
\* sorted device order; the router script, the non-router script and the
\* gateway lookup all compute a device's address on N from that position
\* and count; two distinct devices attached to N get different addresses
\* on it.
C12_PositionsAndAddresses ==
    \A N \in NetworkNames :
       LET al == AttachedList(devices, N) IN
       /\ \A n \in 1..Len(al) :
             Generated(al[n]) =>
                AddressesOn(al[n], N) =
                   {generate_ip_for_network(N, n, Len(al))}
       /\ \A n \in 1..Len(al) :
             (pc \in {"basic", "finish", "done"} /\ InList(al[n], frr_routers)) =>
                get_router_ip_on_network(al[n], N, frr_routers) =
                   generate_ip_for_network(N, PositionAmongAttached(al[n], N),
                                           Len(al)).octets
       /\ \A n, m \in 1..Len(al) :
             (n # m /\ Generated(al[n]) /\ Generated(al[m])) =>
                AddressesOn(al[n], N) \cap AddressesOn(al[m], N) = {}

====
